---- MODULE Spec2Model ----
\* Credit-based flow control of one pipeline stage:
\* paddle/fluid/distributed/fleet_executor/compute_interceptor.cc
\* (ComputeInterceptor).  The stage owns two maps keyed by peer id,
\*   in_readys_ : up_id   -> <<max_ready_size, ready_size>>
\*   out_buffs_ : down_id -> <<max_buffer_size, used_size>>
\* and is driven by Compute(msg), the registered message handler.
EXTENDS Integers, Sequences, FiniteSets, TLC

\* ---------------------------------------------------------------- bounds

\* Most upstream ids, and most downstream ids, a task node names.
MaxEdges == 2
\* Handler invocations explored in one run of Spec.
MaxMsgs == 7
\* Width in bits of the two's complement integer that stands for int64_t:
\* the counters and maxima are int64_t, scaled down so that the largest value
\* is one TLC can count up to.
IntBits == 5

\* Interceptor ids: 1..MaxEdges may be upstream, the next MaxEdges downstream.
PeerIds == 1..(2 * MaxEdges)
\* A sender that no task node of the model names.
StrangerId == (2 * MaxEdges) + 1
SenderIds == PeerIds \cup {StrangerId}

\* ------------------------------------------------- int64_t (scaled width)

Int64Max == (2 ^ (IntBits - 1)) - 1
Int64Min == 0 - (2 ^ (IntBits - 1))

\* Two's complement wrap-around of x into Int64Min..Int64Max.
Wrap64(x) ==
  ((x - Int64Min) % (2 ^ IntBits)) + Int64Min

\* ----------------------------------------------------- message vocabulary

DATA_IS_READY == "DATA_IS_READY"
DATE_IS_USELESS == "DATE_IS_USELESS"
\* Any message type the handler has no branch for.
OTHER_TYPE == "STOP"
MessageTypes == {DATA_IS_READY, DATE_IS_USELESS, OTHER_TYPE}

\* Outcome of a PADDLE_ENFORCE_* : no exception, or the exception thrown.
NoError == "none"
\* platform::errors::NotFound of IncreaseReady / DecreaseBuff
UnknownPeer == "NotFound"
\* platform::errors::OutOfRange of a PADDLE_ENFORCE_LE(counter, max)
CreditOverflow == "OutOfRange_LE"
\* platform::errors::OutOfRange of a PADDLE_ENFORCE_GE(counter, 0)
CreditUnderflow == "OutOfRange_GE"

\* ------------------------------------------------------------- PrepareDeps

in_buff_size == Int64Max
out_buff_size == 2

\* The task nodes of the model, up to renaming of ids: nu upstream and nd
\* downstream ids, disjoint, not both empty.
TaskNodes ==
  { [upstream |-> 1..nu, downstream |-> (MaxEdges + 1)..(MaxEdges + nd)] :
      <<nu, nd>> \in ((0..MaxEdges) \X (0..MaxEdges)) \ {<<0, 0>>} }

PrepareDeps(node) ==
  [ in_readys_ |-> [up_id \in node.upstream |-> <<in_buff_size, 0>>],
    out_buffs_ |-> [down_id \in node.downstream |-> <<out_buff_size, 0>>] ]

\* Keys of a std::map in iteration order (ascending).
RECURSIVE KeysInOrder(_)
KeysInOrder(S) ==
  IF S = {} THEN <<>>
  ELSE LET k == CHOOSE x \in S : \A y \in S : x <= y
       IN <<k>> \o KeysInOrder(S \ {k})

\* ------------------------------------------------ IncreaseReady / DecreaseBuff

\* `wrap` picks the outcome of a signed overflow in `counter += 1` /
\* `counter -= 1`: TRUE, the value wraps around and is then compared; FALSE,
\* the compiler has folded `x + 1 <= max` into `x < max` (`x - 1 >= 0` into
\* `x >= 1`).  The two agree whenever no overflow occurs.
EnforceLEAfterInc(cur, max, wrap) ==
  IF wrap THEN Wrap64(cur + 1) <= max ELSE cur < max

EnforceGEAfterDec(cur, wrap) ==
  IF wrap THEN Wrap64(cur - 1) >= 0 ELSE cur >= 1

\* Mutant: the edge is looked up with operator[], which inserts a zero pair
\* for an unknown peer instead of reporting it.
IncreaseReady_InsertsMissing(in, up_id, wrap) ==
  LET found == IF up_id \in DOMAIN in
                 THEN in
                 ELSE [k \in DOMAIN in \cup {up_id} |->
                         IF k = up_id THEN <<0, 0>> ELSE in[k]]
      max_ready_size == found[up_id][1]
      ready_size == Wrap64(found[up_id][2] + 1)
  IN IF EnforceLEAfterInc(found[up_id][2], max_ready_size, wrap)
       THEN [in_readys_ |-> [found EXCEPT ![up_id] = <<max_ready_size, ready_size>>],
             err |-> NoError]
       ELSE [in_readys_ |-> found, err |-> CreditOverflow]

IncreaseReady(in, up_id, wrap) ==
  IF up_id \notin DOMAIN in
    THEN [in_readys_ |-> in, err |-> UnknownPeer]
    ELSE LET max_ready_size == in[up_id][1]
             ready_size == Wrap64(in[up_id][2] + 1)
         IN IF EnforceLEAfterInc(in[up_id][2], max_ready_size, wrap)
              THEN [in_readys_ |-> [in EXCEPT ![up_id] = <<max_ready_size, ready_size>>],
                    err |-> NoError]
              ELSE [in_readys_ |-> in, err |-> CreditOverflow]

\* Mutant: the lower bound is not enforced.
DecreaseBuff_NoEnforce(out, down_id, wrap) ==
  IF down_id \notin DOMAIN out
    THEN [out_buffs_ |-> out, err |-> UnknownPeer]
    ELSE [out_buffs_ |-> [out EXCEPT ![down_id] =
                            <<out[down_id][1], Wrap64(out[down_id][2] - 1)>>],
          err |-> NoError]

\* Mutant: the decremented value is enforced to be > 0 instead of >= 0.
DecreaseBuff_EnforceGT(out, down_id, wrap) ==
  IF down_id \notin DOMAIN out
    THEN [out_buffs_ |-> out, err |-> UnknownPeer]
    ELSE IF Wrap64(out[down_id][2] - 1) > 0
      THEN [out_buffs_ |-> [out EXCEPT ![down_id] =
                              <<out[down_id][1], Wrap64(out[down_id][2] - 1)>>],
            err |-> NoError]
      ELSE [out_buffs_ |-> out, err |-> CreditUnderflow]

\* Mutant: the decremented value is stored before it is enforced.
DecreaseBuff_StoreBeforeEnforce(out, down_id, wrap) ==
  IF down_id \notin DOMAIN out
    THEN [out_buffs_ |-> out, err |-> UnknownPeer]
    ELSE [out_buffs_ |-> [out EXCEPT ![down_id] =
                            <<out[down_id][1], Wrap64(out[down_id][2] - 1)>>],
          err |-> IF EnforceGEAfterDec(out[down_id][2], wrap)
                    THEN NoError ELSE CreditUnderflow]

DecreaseBuff(out, down_id, wrap) ==
  IF down_id \notin DOMAIN out
    THEN [out_buffs_ |-> out, err |-> UnknownPeer]
    ELSE LET used_size == Wrap64(out[down_id][2] - 1)
         IN IF EnforceGEAfterDec(out[down_id][2], wrap)
              THEN [out_buffs_ |-> [out EXCEPT ![down_id] = <<out[down_id][1], used_size>>],
                    err |-> NoError]
              ELSE [out_buffs_ |-> out, err |-> CreditUnderflow]

\* ------------------------------------------------ IsInputReady / CanWriteOutput

\* Mutant: ready as soon as one upstream edge holds input.
IsInputReady_AnyReady(in) ==
  DOMAIN in = {} \/ \E up_id \in DOMAIN in : in[up_id][2] # 0

IsInputReady(in) ==
  \A up_id \in DOMAIN in : in[up_id][2] # 0

\* Mutant: an edge counts as full only above its maximum.
CanWriteOutput_GreaterThan(out) ==
  \A down_id \in DOMAIN out : ~(out[down_id][2] > out[down_id][1])

CanWriteOutput(out) ==
  \A down_id \in DOMAIN out : out[down_id][2] # out[down_id][1]

\* ------------------------- SendDataReadyToDownStream / ReplyCompletedToUpStream

\* One pass of `for (auto& outs : out_buffs_)` over the keys still to visit.
\* An exception leaves the edges already visited updated and their messages
\* sent.  Result: the map, the messages Send() was called with, the error.
RECURSIVE SendLoop(_, _, _, _)
SendLoop(out, keys, sends, wrap) ==
  IF keys = <<>>
    THEN [out_buffs_ |-> out, sends |-> sends, err |-> NoError]
    ELSE LET down_id == Head(keys)
             max_buff_size == out[down_id][1]
             used_size == Wrap64(out[down_id][2] + 1)
         IN IF EnforceLEAfterInc(out[down_id][2], max_buff_size, wrap)
              THEN SendLoop([out EXCEPT ![down_id] = <<max_buff_size, used_size>>],
                            Tail(keys),
                            Append(sends, <<down_id, DATA_IS_READY>>),
                            wrap)
              ELSE [out_buffs_ |-> out, sends |-> sends, err |-> CreditOverflow]

\* Mutant: the counters are updated but Send() is not called.
SendDataReadyToDownStream_NoSend(out, wrap) ==
  [SendLoop(out, KeysInOrder(DOMAIN out), <<>>, wrap) EXCEPT !.sends = <<>>]

\* Mutant: the loop returns after its first edge.
SendDataReadyToDownStream_FirstOnly(out, wrap) ==
  IF DOMAIN out = {}
    THEN [out_buffs_ |-> out, sends |-> <<>>, err |-> NoError]
    ELSE SendLoop(out, <<Head(KeysInOrder(DOMAIN out))>>, <<>>, wrap)

SendDataReadyToDownStream(out, wrap) ==
  SendLoop(out, KeysInOrder(DOMAIN out), <<>>, wrap)

RECURSIVE ReplyLoop(_, _, _, _)
ReplyLoop(in, keys, sends, wrap) ==
  IF keys = <<>>
    THEN [in_readys_ |-> in, sends |-> sends, err |-> NoError]
    ELSE LET up_id == Head(keys)
             ready_size == Wrap64(in[up_id][2] - 1)
         IN IF EnforceGEAfterDec(in[up_id][2], wrap)
              THEN ReplyLoop([in EXCEPT ![up_id] = <<in[up_id][1], ready_size>>],
                             Tail(keys),
                             Append(sends, <<up_id, DATE_IS_USELESS>>),
                             wrap)
              ELSE [in_readys_ |-> in, sends |-> sends, err |-> CreditUnderflow]

\* Mutant: the counters are updated but Send() is not called.
ReplyCompletedToUpStream_NoReply(in, wrap) ==
  [ReplyLoop(in, KeysInOrder(DOMAIN in), <<>>, wrap) EXCEPT !.sends = <<>>]

ReplyCompletedToUpStream(in, wrap) ==
  ReplyLoop(in, KeysInOrder(DOMAIN in), <<>>, wrap)

\* ---------------------------------------------------------------------- Run

\* The while loop, from the state (in, out); `units` holds the state in which
\* each iteration so far was entered and `sends` the messages sent so far.
\* An iteration is a work unit once its body is entered (the op run precedes
\* the two sends).
RECURSIVE RunLoop(_, _, _, _, _)
RunLoop(in, out, units, sends, wrap) ==
  IF ~(IsInputReady(in) /\ CanWriteOutput(out))
    THEN [in_readys_ |-> in, out_buffs_ |-> out, units |-> units,
          sends |-> sends, err |-> NoError]
    ELSE LET s == SendDataReadyToDownStream(out, wrap)
             r == ReplyCompletedToUpStream(in, wrap)
             entered == Append(units, [in_readys_ |-> in, out_buffs_ |-> out])
         IN IF s.err # NoError
              THEN [in_readys_ |-> in, out_buffs_ |-> s.out_buffs_,
                    units |-> entered, sends |-> sends \o s.sends, err |-> s.err]
              ELSE IF r.err # NoError
                THEN [in_readys_ |-> r.in_readys_, out_buffs_ |-> s.out_buffs_,
                      units |-> entered, sends |-> sends \o s.sends \o r.sends,
                      err |-> r.err]
                ELSE RunLoop(r.in_readys_, s.out_buffs_, entered,
                             sends \o s.sends \o r.sends, wrap)

\* Mutant: `if` in place of `while`, at most one iteration.
Run_IfNotWhile(in, out, wrap) ==
  IF ~(IsInputReady(in) /\ CanWriteOutput(out))
    THEN [in_readys_ |-> in, out_buffs_ |-> out, units |-> <<>>,
          sends |-> <<>>, err |-> NoError]
    ELSE LET s == SendDataReadyToDownStream(out, wrap)
             r == ReplyCompletedToUpStream(in, wrap)
             entered == <<[in_readys_ |-> in, out_buffs_ |-> out]>>
         IN IF s.err # NoError
              THEN [in_readys_ |-> in, out_buffs_ |-> s.out_buffs_,
                    units |-> entered, sends |-> s.sends, err |-> s.err]
              ELSE [in_readys_ |-> r.in_readys_, out_buffs_ |-> s.out_buffs_,
                    units |-> entered, sends |-> s.sends \o r.sends, err |-> r.err]

Run(in, out, wrap) ==
  RunLoop(in, out, <<>>, <<>>, wrap)

\* ------------------------------------------------------------------ Compute

\* Mutant: the DATE_IS_USELESS branch does not call Run().
Compute_NoRunAfterDecrease(in, out, msg, wrap) ==
  IF msg.type = DATA_IS_READY
    THEN LET i == IncreaseReady(in, msg.src_id, wrap)
         IN IF i.err # NoError
              THEN [in_readys_ |-> i.in_readys_, out_buffs_ |-> out,
                    units |-> <<>>, sends |-> <<>>, err |-> i.err]
              ELSE Run(i.in_readys_, out, wrap)
  ELSE IF msg.type = DATE_IS_USELESS
    THEN LET d == DecreaseBuff(out, msg.src_id, wrap)
         IN [in_readys_ |-> in, out_buffs_ |-> d.out_buffs_,
             units |-> <<>>, sends |-> <<>>, err |-> d.err]
  ELSE [in_readys_ |-> in, out_buffs_ |-> out, units |-> <<>>,
        sends |-> <<>>, err |-> NoError]

\* Mutant: Run() is called whatever the message type.
Compute_RunAlways(in, out, msg, wrap) ==
  IF msg.type = DATA_IS_READY
    THEN LET i == IncreaseReady(in, msg.src_id, wrap)
         IN IF i.err # NoError
              THEN [in_readys_ |-> i.in_readys_, out_buffs_ |-> out,
                    units |-> <<>>, sends |-> <<>>, err |-> i.err]
              ELSE Run(i.in_readys_, out, wrap)
  ELSE IF msg.type = DATE_IS_USELESS
    THEN LET d == DecreaseBuff(out, msg.src_id, wrap)
         IN IF d.err # NoError
              THEN [in_readys_ |-> in, out_buffs_ |-> d.out_buffs_,
                    units |-> <<>>, sends |-> <<>>, err |-> d.err]
              ELSE Run(in, d.out_buffs_, wrap)
  ELSE Run(in, out, wrap)

\* The registered handler on message msg = [type, src_id].  An exception
\* thrown by the counter update ends the handler before Run().
Compute(in, out, msg, wrap) ==
  IF msg.type = DATA_IS_READY
    THEN LET i == IncreaseReady(in, msg.src_id, wrap)
         IN IF i.err # NoError
              THEN [in_readys_ |-> i.in_readys_, out_buffs_ |-> out,
                    units |-> <<>>, sends |-> <<>>, err |-> i.err]
              ELSE Run(i.in_readys_, out, wrap)
  ELSE IF msg.type = DATE_IS_USELESS
    THEN LET d == DecreaseBuff(out, msg.src_id, wrap)
         IN IF d.err # NoError
              THEN [in_readys_ |-> in, out_buffs_ |-> d.out_buffs_,
                    units |-> <<>>, sends |-> <<>>, err |-> d.err]
              ELSE Run(in, d.out_buffs_, wrap)
  ELSE [in_readys_ |-> in, out_buffs_ |-> out, units |-> <<>>,
        sends |-> <<>>, err |-> NoError]

\* ------------------------------------------------------------ stage state

VARIABLES
  in_readys_,       \* up_id -> <<max_ready_size, ready_size>>
  out_buffs_,       \* down_id -> <<max_buffer_size, used_size>>
  last,             \* the latest handler invocation: message, state before it,
                    \* state each work unit began in, messages sent (in order),
                    \* error thrown
  works_total,      \* work units begun since construction
  ready_sent,       \* peer -> DATA_IS_READY messages sent to it
  useless_sent,     \* peer -> DATE_IS_USELESS messages sent to it
  ready_accepted,   \* peer -> DATA_IS_READY from it that passed IncreaseReady
  useless_accepted, \* peer -> DATE_IS_USELESS from it that passed DecreaseBuff
  contract_ok,      \* every message so far came from a configured peer of its
                    \* kind within that edge's credit
  nmsgs             \* handler invocations since construction

\* Several stages wired into a pipeline, each running the same handler, with
\* one FIFO channel per ordered pair of connected stages.
VARIABLES
  p_edges,          \* the wiring: <<a, b>> when a is upstream of b
  p_state,          \* stage -> [in_readys_, out_buffs_]
  p_chan,           \* <<src, dst>> -> message types in flight, oldest first
  p_last,           \* the latest step: the stage that ran, the work units it
                    \* began, the error thrown
  p_started         \* Run() has been triggered on a source stage

svars ==
  <<in_readys_, out_buffs_, last, works_total, ready_sent, useless_sent,
    ready_accepted, useless_accepted, contract_ok, nmsgs>>

pvars == <<p_edges, p_state, p_chan, p_last, p_started>>

vars == <<svars, pvars>>

\* No pipeline: the single stage alone is observed.
PipeIdle ==
  /\ p_edges = {}
  /\ p_state = <<>>
  /\ p_chan = <<>>
  /\ p_last = [stage |-> 0, works |-> 0, err |-> NoError]
  /\ p_started = FALSE

\* The trigger that calls Run() without a message.
RUN_TRIGGER == "RUN"
NoMessage == [type |-> "none", src_id |-> 0]

\* Number of entries of the sequence `sends` equal to m.
CountOf(sends, m) ==
  Cardinality({i \in 1..Len(sends) : sends[i] = m})

\* ComputeInterceptor::ComputeInterceptor : PrepareDeps() on the task node.
Init ==
  \E node \in TaskNodes :
    /\ in_readys_ = PrepareDeps(node).in_readys_
    /\ out_buffs_ = PrepareDeps(node).out_buffs_
    /\ last = [msg |-> NoMessage, pre_in |-> PrepareDeps(node).in_readys_,
               pre_out |-> PrepareDeps(node).out_buffs_, units |-> <<>>,
               sends |-> <<>>, err |-> NoError]
    /\ works_total = 0
    /\ ready_sent = [p \in SenderIds |-> 0]
    /\ useless_sent = [p \in SenderIds |-> 0]
    /\ ready_accepted = [p \in SenderIds |-> 0]
    /\ useless_accepted = [p \in SenderIds |-> 0]
    /\ contract_ok = TRUE
    /\ nmsgs = 0
    /\ PipeIdle

\* The credit contract of the peers: DATA_IS_READY comes from an upstream peer
\* whose edge holds fewer than its maximum, DATE_IS_USELESS from a downstream
\* peer whose edge holds at least one used buffer.
RespectsCredit(in, out, msg) ==
  /\ msg.type = DATA_IS_READY =>
       msg.src_id \in DOMAIN in /\ in[msg.src_id][2] < in[msg.src_id][1]
  /\ msg.type = DATE_IS_USELESS =>
       msg.src_id \in DOMAIN out /\ out[msg.src_id][2] > 0

\* The stage after one handler invocation on msg whose result is r; the
\* counter update of the message itself succeeded iff `accepted`.
Returned(msg, r, accepted) ==
  /\ in_readys_' = r.in_readys_
  /\ out_buffs_' = r.out_buffs_
  /\ last' = [msg |-> msg, pre_in |-> in_readys_, pre_out |-> out_buffs_,
              units |-> r.units, sends |-> r.sends, err |-> r.err]
  /\ works_total' = works_total + Len(r.units)
  /\ ready_sent' =
       [p \in SenderIds |-> ready_sent[p] + CountOf(r.sends, <<p, DATA_IS_READY>>)]
  /\ useless_sent' =
       [p \in SenderIds |-> useless_sent[p] + CountOf(r.sends, <<p, DATE_IS_USELESS>>)]
  /\ ready_accepted' =
       IF msg.type = DATA_IS_READY /\ accepted
         THEN [ready_accepted EXCEPT ![msg.src_id] = @ + 1]
         ELSE ready_accepted
  /\ useless_accepted' =
       IF msg.type = DATE_IS_USELESS /\ accepted
         THEN [useless_accepted EXCEPT ![msg.src_id] = @ + 1]
         ELSE useless_accepted
  /\ contract_ok' = (contract_ok /\ RespectsCredit(in_readys_, out_buffs_, msg))
  /\ nmsgs' = nmsgs + 1
  /\ UNCHANGED pvars

\* Compute(msg) for a DATA_IS_READY message from src, within `limit` invocations.
HandleDataIsReady(src, limit) ==
  /\ nmsgs < limit
  /\ \E wrap \in BOOLEAN :
       LET msg == [type |-> DATA_IS_READY, src_id |-> src]
       IN Returned(msg, Compute(in_readys_, out_buffs_, msg, wrap),
                   IncreaseReady(in_readys_, src, wrap).err = NoError)

\* Compute(msg) for a DATE_IS_USELESS message from src.
HandleDataIsUseless(src, limit) ==
  /\ nmsgs < limit
  /\ \E wrap \in BOOLEAN :
       LET msg == [type |-> DATE_IS_USELESS, src_id |-> src]
       IN Returned(msg, Compute(in_readys_, out_buffs_, msg, wrap),
                   DecreaseBuff(out_buffs_, src, wrap).err = NoError)

\* Compute(msg) for a message of any other type.
HandleOther(src, limit) ==
  /\ nmsgs < limit
  /\ \E wrap \in BOOLEAN :
       LET msg == [type |-> OTHER_TYPE, src_id |-> src]
       IN Returned(msg, Compute(in_readys_, out_buffs_, msg, wrap), FALSE)

\* Run() called on its own.
AttemptRun(limit) ==
  /\ nmsgs < limit
  /\ \E wrap \in BOOLEAN :
       Returned([type |-> RUN_TRIGGER, src_id |-> 0],
                Run(in_readys_, out_buffs_, wrap), FALSE)

RecvDataIsReady == \E src \in SenderIds : HandleDataIsReady(src, MaxMsgs)
RecvDataIsUseless == \E src \in SenderIds : HandleDataIsUseless(src, MaxMsgs)
RecvOther == \E src \in SenderIds : HandleOther(src, MaxMsgs)
TriggerRun == AttemptRun(MaxMsgs)

Next ==
  \/ RecvDataIsReady
  \/ RecvDataIsUseless
  \/ RecvOther
  \/ TriggerRun

Spec == Init /\ [][Next]_vars

\* Runs long enough for a ready_size to pass the largest int64_t: in Spec
\* (MaxMsgs < Int64Max invocations) no counter reaches it.
OverflowMsgs == Int64Max + 2

RecvDataIsReadyLong == \E src \in SenderIds : HandleDataIsReady(src, OverflowMsgs)
RecvDataIsUselessLong == \E src \in SenderIds : HandleDataIsUseless(src, OverflowMsgs)
RecvOtherLong == \E src \in SenderIds : HandleOther(src, OverflowMsgs)
TriggerRunLong == AttemptRun(OverflowMsgs)

NextOverflow ==
  \/ RecvDataIsReadyLong
  \/ RecvDataIsUselessLong
  \/ RecvOtherLong
  \/ TriggerRunLong

SpecOverflow == Init /\ [][NextOverflow]_vars

\* ----------------------------------------------------------------- pipeline

\* Most stages of a wiring of any shape, and of a linear chain.
MaxStages == 3
MaxChain == 4

StageIds == 1..(IF MaxChain > MaxStages THEN MaxChain ELSE MaxStages)
WiredIds == 1..MaxStages

\* The wirings of the model: the non-empty sets of edges a -> b with a < b
\* (every such wiring is acyclic and consistent: b is downstream of a iff a
\* is upstream of b).
Pipelines ==
  (SUBSET {e \in WiredIds \X WiredIds : e[1] < e[2]}) \ {{}}

\* The chains 1 -> 2 -> ... -> n.
Chains ==
  { {<<i, i + 1>> : i \in 1..(n - 1)} : n \in 2..MaxChain }

StagesOf(edges) ==
  {e[1] : e \in edges} \cup {e[2] : e \in edges}

\* The task node of stage s in the wiring.
NodeOf(edges, s) ==
  [upstream |-> {e[1] : e \in {x \in edges : x[2] = s}},
   downstream |-> {e[2] : e \in {x \in edges : x[1] = s}}]

\* What the single-stage variables hold while a pipeline is observed.
StageIdle ==
  /\ in_readys_ = <<>>
  /\ out_buffs_ = <<>>
  /\ last = [msg |-> NoMessage, pre_in |-> <<>>, pre_out |-> <<>>,
             units |-> <<>>, sends |-> <<>>, err |-> NoError]
  /\ works_total = 0
  /\ ready_sent = [p \in SenderIds |-> 0]
  /\ useless_sent = [p \in SenderIds |-> 0]
  /\ ready_accepted = [p \in SenderIds |-> 0]
  /\ useless_accepted = [p \in SenderIds |-> 0]
  /\ contract_ok = TRUE
  /\ nmsgs = 0

\* Every stage constructed on its task node, every channel empty.
PipeInitOn(edges) ==
  /\ StageIdle
  /\ p_edges = edges
  /\ p_state = [s \in StagesOf(edges) |-> PrepareDeps(NodeOf(edges, s))]
  /\ p_chan = [c \in edges \cup {<<e[2], e[1]>> : e \in edges} |-> <<>>]
  /\ p_last = [stage |-> 0, works |-> 0, err |-> NoError]
  /\ p_started = FALSE

PipeInit == \E edges \in Pipelines : PipeInitOn(edges)
ChainInit == \E edges \in Chains : PipeInitOn(edges)

\* The types of the messages of `sends` addressed to `to`, in send order.
TypesSentTo(sends, to) ==
  LET IsTo(m) == m[1] = to
      mine == SelectSeq(sends, IsTo)
  IN [i \in 1..Len(mine) |-> mine[i][2]]

\* Send(dst, msg) of stage s for each message of `sends`: appended to the
\* channel s -> dst.
Sent(chan, s, sends) ==
  [c \in DOMAIN chan |->
     IF c[1] = s THEN chan[c] \o TypesSentTo(sends, c[2]) ELSE chan[c]]

\* Stage s after a step whose result is r, on the channels `chan`.
PipeReturned(s, r, chan) ==
  /\ p_state' = [p_state EXCEPT ![s] =
                   [in_readys_ |-> r.in_readys_, out_buffs_ |-> r.out_buffs_]]
  /\ p_chan' = Sent(chan, s, r.sends)
  /\ p_last' = [stage |-> s, works |-> Len(r.units), err |-> r.err]

\* The oldest message of channel src -> dst is delivered: dst runs
\* Compute(msg) to completion.
PipeDeliver(src, dst) ==
  /\ <<src, dst>> \in DOMAIN p_chan
  /\ p_chan[<<src, dst>>] # <<>>
  /\ \E wrap \in BOOLEAN :
       LET msg == [type |-> Head(p_chan[<<src, dst>>]), src_id |-> src]
       IN \E r \in {Compute(p_state[dst].in_readys_, p_state[dst].out_buffs_,
                               msg, wrap)} :
            PipeReturned(dst, r, [p_chan EXCEPT ![<<src, dst>>] = Tail(@)])
  /\ UNCHANGED <<svars, p_edges, p_started>>

\* Run() is triggered on a source stage (one without upstream).
PipeTrigger(s) ==
  /\ s \in DOMAIN p_state
  /\ DOMAIN p_state[s].in_readys_ = {}
  /\ \E wrap \in BOOLEAN :
       \E r \in {Run(p_state[s].in_readys_, p_state[s].out_buffs_, wrap)} :
         PipeReturned(s, r, p_chan)
  /\ p_started' = TRUE
  /\ UNCHANGED <<svars, p_edges>>

Deliver == \E src \in StageIds : \E dst \in StageIds : PipeDeliver(src, dst)
Trigger == \E s \in StageIds : PipeTrigger(s)

PipeNext ==
  \/ Deliver
  \/ Trigger

PipeSpec == PipeInit /\ [][PipeNext]_vars

\* The substrate delivers the messages sent to a live peer: while some
\* channel holds a message, a delivery eventually happens.
ChainSpec == ChainInit /\ [][PipeNext]_vars /\ WF_vars(Deliver)

\* ---------------------------------------------------------------- helpers

ReadySize(in, up_id) == in[up_id][2]
MaxReadySize(in, up_id) == in[up_id][1]
UsedSize(out, down_id) == out[down_id][2]
MaxBuffSize(out, down_id) == out[down_id][1]

Min(a, b) == IF a <= b THEN a ELSE b

\* The latest invocation left both maps as it found them, sent nothing and
\* began no work unit.
LastDidNothing ==
  /\ in_readys_ = last.pre_in
  /\ out_buffs_ = last.pre_out
  /\ last.sends = <<>>
  /\ last.units = <<>>

\* ------------------------------------------------------------------ claims

\* C1: between handler invocations, whatever messages were handled (rejected
\* ones included), every upstream edge has 0 <= ready_size <= max_ready_size
\* and every downstream edge has 0 <= used_size <= max_buffer_size.
C1_CounterBounds ==
  /\ \A u \in DOMAIN in_readys_ :
       0 <= ReadySize(in_readys_, u) /\ ReadySize(in_readys_, u) <= MaxReadySize(in_readys_, u)
  /\ \A d \in DOMAIN out_buffs_ :
       0 <= UsedSize(out_buffs_, d) /\ UsedSize(out_buffs_, d) <= MaxBuffSize(out_buffs_, d)

\* A rejected DATE_IS_USELESS on an edge with nothing in use, in a stage that
\* holds ready input and a saturated output edge.
C1_Witness ==
  /\ last.err = CreditUnderflow
  /\ \E u \in DOMAIN in_readys_ : ReadySize(in_readys_, u) > 0
  /\ \E d \in DOMAIN out_buffs_ : UsedSize(out_buffs_, d) = MaxBuffSize(out_buffs_, d)
  /\ \E d \in DOMAIN out_buffs_ : UsedSize(out_buffs_, d) = 0

\* C2: every work unit begins in a state where every upstream edge has
\* ready_size > 0 and every downstream edge has used_size < max_buffer_size;
\* a stage whose only downstream edge is full when the loop is entered
\* begins none, even with all inputs ready.
C2_GateBeforeWork ==
  /\ \A i \in 1..Len(last.units) :
       /\ \A u \in DOMAIN last.units[i].in_readys_ :
            ReadySize(last.units[i].in_readys_, u) > 0
       /\ \A d \in DOMAIN last.units[i].out_buffs_ :
            UsedSize(last.units[i].out_buffs_, d) < MaxBuffSize(last.units[i].out_buffs_, d)
  /\ ( /\ Cardinality(DOMAIN out_buffs_) = 1
       /\ last.msg.type \in {DATA_IS_READY, RUN_TRIGGER}
       /\ \A d \in DOMAIN last.pre_out :
            UsedSize(last.pre_out, d) = MaxBuffSize(last.pre_out, d) )
     => last.units = <<>>

\* A DATA_IS_READY accepted while the only downstream edge is full: all
\* inputs are ready and no work unit begins.
C2_Witness ==
  /\ Cardinality(DOMAIN out_buffs_) = 1
  /\ last.msg.type = DATA_IS_READY
  /\ last.err = NoError
  /\ last.msg.src_id \in DOMAIN in_readys_
  /\ \A d \in DOMAIN last.pre_out : UsedSize(last.pre_out, d) = MaxBuffSize(last.pre_out, d)
  /\ IsInputReady(in_readys_)
  /\ last.units = <<>>

\* C3: while every DATA_IS_READY / DATE_IS_USELESS so far came from a
\* configured peer within its edge's credit, no handler invocation throws.
C3_NoErrorUnderContract ==
  contract_ok => last.err = NoError

\* A run within the contract that accepted messages of either kind and ran
\* work units on the last one.
C3_Witness ==
  /\ contract_ok
  /\ last.msg.type = DATE_IS_USELESS
  /\ Len(last.units) > 0
  /\ \E u \in DOMAIN in_readys_ : ready_accepted[u] >= 3

\* C4: when every upstream edge holds ready input and the only downstream
\* edge is full, handling one DATE_IS_USELESS from that downstream peer runs
\* exactly one work unit in that invocation: the edge is full again, one
\* DATA_IS_READY went downstream and one DATE_IS_USELESS to every upstream peer.
C4_BackpressureRelease ==
  ( /\ last.msg.type = DATE_IS_USELESS
    /\ DOMAIN last.pre_out = {last.msg.src_id}
    /\ UsedSize(last.pre_out, last.msg.src_id) = MaxBuffSize(last.pre_out, last.msg.src_id)
    /\ \A u \in DOMAIN last.pre_in : ReadySize(last.pre_in, u) > 0 )
  => /\ last.err = NoError
     /\ Len(last.units) = 1
     /\ UsedSize(last.units[1].out_buffs_, last.msg.src_id)
          = MaxBuffSize(last.pre_out, last.msg.src_id) - 1
     /\ UsedSize(out_buffs_, last.msg.src_id) = MaxBuffSize(out_buffs_, last.msg.src_id)
     /\ CountOf(last.sends, <<last.msg.src_id, DATA_IS_READY>>) = 1
     /\ \A u \in DOMAIN in_readys_ :
          /\ CountOf(last.sends, <<u, DATE_IS_USELESS>>) = 1
          /\ ReadySize(in_readys_, u) = ReadySize(last.pre_in, u) - 1
     /\ Len(last.sends) = 1 + Cardinality(DOMAIN in_readys_)

\* The release happened in a stage with two upstream edges.
C4_Witness ==
  /\ last.msg.type = DATE_IS_USELESS
  /\ DOMAIN last.pre_out = {last.msg.src_id}
  /\ UsedSize(last.pre_out, last.msg.src_id) = MaxBuffSize(last.pre_out, last.msg.src_id)
  /\ Cardinality(DOMAIN last.pre_in) = 2
  /\ \A u \in DOMAIN last.pre_in : ReadySize(last.pre_in, u) > 0
  /\ Len(last.units) = 1

\* C5: a stage with one upstream and one downstream edge (capacity D) that
\* has accepted n DATA_IS_READY and no DATE_IS_USELESS since construction has
\* run min(n, D) work units, sent min(n, D) DATA_IS_READY downstream and
\* min(n, D) DATE_IS_USELESS upstream, and holds ready_size = n - min(n, D),
\* used_size = min(n, D).
C5_SingleEdgeCounts ==
  \A u \in DOMAIN in_readys_ : \A d \in DOMAIN out_buffs_ :
    ( /\ DOMAIN in_readys_ = {u}
      /\ DOMAIN out_buffs_ = {d}
      /\ useless_accepted[d] = 0 )
    => LET n == ready_accepted[u]
           m == Min(n, MaxBuffSize(out_buffs_, d))
       IN /\ n <= MaxReadySize(in_readys_, u)
          /\ works_total = m
          /\ ready_sent[d] = m
          /\ useless_sent[u] = m
          /\ ReadySize(in_readys_, u) = n - m
          /\ UsedSize(out_buffs_, d) = m

\* Two DATA_IS_READY accepted: 2 work units, 2 + 2 messages, counters 0 and 2.
C5_Witness ==
  \E u \in DOMAIN in_readys_ : \E d \in DOMAIN out_buffs_ :
    /\ DOMAIN in_readys_ = {u}
    /\ DOMAIN out_buffs_ = {d}
    /\ useless_accepted[d] = 0
    /\ ready_accepted[u] = 2
    /\ works_total = 2
    /\ ready_sent[d] = 2
    /\ useless_sent[u] = 2
    /\ ReadySize(in_readys_, u) = 0
    /\ UsedSize(out_buffs_, d) = 2

\* C6: DATE_IS_USELESS from a configured downstream peer whose edge has
\* used_size = 0 throws the underflow error; no counter changes, nothing is
\* sent and no work unit begins.
C6_UnderflowRejected ==
  ( /\ last.msg.type = DATE_IS_USELESS
    /\ last.msg.src_id \in DOMAIN last.pre_out
    /\ UsedSize(last.pre_out, last.msg.src_id) = 0 )
  => (last.err = CreditUnderflow /\ LastDidNothing)

\* The rejected message reached a stage whose gate was open: Run() would have
\* begun a work unit.
C6_Witness ==
  /\ last.msg.type = DATE_IS_USELESS
  /\ last.msg.src_id \in DOMAIN last.pre_out
  /\ UsedSize(last.pre_out, last.msg.src_id) = 0
  /\ IsInputReady(last.pre_in) /\ CanWriteOutput(last.pre_out)
  /\ last.err = CreditUnderflow

\* C7: DATA_IS_READY from a sender that is no upstream peer (a downstream peer
\* included), or DATE_IS_USELESS from a sender that is no downstream peer,
\* throws the not-found error; no counter changes, nothing is sent and no
\* work unit begins.
C7_UnknownPeerRejected ==
  ( \/ last.msg.type = DATA_IS_READY /\ last.msg.src_id \notin DOMAIN last.pre_in
    \/ last.msg.type = DATE_IS_USELESS /\ last.msg.src_id \notin DOMAIN last.pre_out )
  => (last.err = UnknownPeer /\ LastDidNothing)

\* DATA_IS_READY from a downstream peer, rejected while the gate was open.
C7_Witness ==
  /\ last.msg.type = DATA_IS_READY
  /\ last.msg.src_id \in DOMAIN last.pre_out
  /\ last.msg.src_id \notin DOMAIN last.pre_in
  /\ IsInputReady(last.pre_in) /\ CanWriteOutput(last.pre_out)
  /\ last.err = UnknownPeer

\* C8: DATA_IS_READY from a configured upstream peer whose edge already has
\* ready_size = max_ready_size throws the overflow error; ready_size and every
\* other counter stay as they were, nothing is sent and no work unit begins.
C8_OverflowRejected ==
  ( /\ last.msg.type = DATA_IS_READY
    /\ last.msg.src_id \in DOMAIN last.pre_in
    /\ ReadySize(last.pre_in, last.msg.src_id) = MaxReadySize(last.pre_in, last.msg.src_id) )
  => (last.err = CreditOverflow /\ LastDidNothing)

\* C9: one Run() on a source stage (no upstream edge) in its initial state
\* begins exactly 2 work units and leaves every downstream edge with
\* used_size = 2; a further Run() with every edge still full begins none.
C9_SourceRunsToSaturation ==
  ( /\ DOMAIN in_readys_ = {}
    /\ last.msg.type = RUN_TRIGGER )
  => /\ (\A d \in DOMAIN last.pre_out : UsedSize(last.pre_out, d) = 0)
          => /\ Len(last.units) = 2
             /\ \A d \in DOMAIN out_buffs_ : UsedSize(out_buffs_, d) = 2
             /\ ~CanWriteOutput(out_buffs_)
             /\ last.err = NoError
     /\ (\A d \in DOMAIN last.pre_out : UsedSize(last.pre_out, d) = 2)
          => (last.err = NoError /\ LastDidNothing)

\* The second of two Run() triggers on a source stage: 2 work units so far,
\* none in this invocation.
C9_Witness ==
  /\ DOMAIN in_readys_ = {}
  /\ last.msg.type = RUN_TRIGGER
  /\ nmsgs = 2
  /\ works_total = 2
  /\ last.units = <<>>
  /\ \A d \in DOMAIN out_buffs_ : UsedSize(out_buffs_, d) = 2

\* The messages a peer may have pending.
PendingMsgs ==
  [type : {DATA_IS_READY, DATE_IS_USELESS}, src_id : SenderIds]

\* Handling m1 and then m2 from the present state: the two results.
InOrder(m1, m2) ==
  LET first == Compute(in_readys_, out_buffs_, m1, TRUE)
      second == Compute(first.in_readys_, first.out_buffs_, m2, TRUE)
  IN [first |-> first, second |-> second]

\* C10: for two pending messages from different peers, if neither order of
\* handling them throws, both orders end in the same counters on every edge,
\* the same number of work units and the same number of messages of each
\* type sent to each peer.  (The statement is symmetric in the two messages,
\* so each pair is taken once, the lower sender id first.)
C10_OrderAcrossSenders ==
  \A m1, m2 \in PendingMsgs :
    LET a == InOrder(m1, m2)
        b == InOrder(m2, m1)
    IN ( /\ m1.src_id < m2.src_id
         /\ a.first.err = NoError /\ a.second.err = NoError
         /\ b.first.err = NoError /\ b.second.err = NoError )
       => /\ a.second.in_readys_ = b.second.in_readys_
          /\ a.second.out_buffs_ = b.second.out_buffs_
          /\ Len(a.first.units) + Len(a.second.units)
               = Len(b.first.units) + Len(b.second.units)
          /\ \A p \in SenderIds : \A t \in {DATA_IS_READY, DATE_IS_USELESS} :
               CountOf(a.first.sends \o a.second.sends, <<p, t>>)
                 = CountOf(b.first.sends \o b.second.sends, <<p, t>>)

\* Two messages from different peers that can be handled in either order
\* without error, where the work units fall in different invocations
\* depending on the order.
C10_Witness ==
  \E m1, m2 \in PendingMsgs :
    LET a == InOrder(m1, m2)
        b == InOrder(m2, m1)
    IN /\ m1.src_id # m2.src_id
       /\ m1.type # m2.type
       /\ a.first.err = NoError /\ a.second.err = NoError
       /\ b.first.err = NoError /\ b.second.err = NoError
       /\ Len(a.first.units) = 0 /\ Len(a.second.units) > 0
       /\ Len(b.first.units) = 0 /\ Len(b.second.units) > 0
       /\ nmsgs > 0

\* The stage as iteration i of the latest invocation left it: the state the
\* next iteration was entered in, or the present state after the last one.
AfterUnit(i) ==
  IF i < Len(last.units)
    THEN last.units[i + 1]
    ELSE [in_readys_ |-> in_readys_, out_buffs_ |-> out_buffs_]

\* The messages iteration i of the latest invocation sent, in order, when
\* every iteration sent one message per edge.
SendsOfUnit(i) ==
  LET n == Cardinality(DOMAIN in_readys_) + Cardinality(DOMAIN out_buffs_)
  IN SubSeq(last.sends, ((i - 1) * n) + 1, i * n)

\* C11: every work unit raises used_size by exactly 1 on every downstream
\* edge and sends one DATA_IS_READY to each downstream peer, then lowers
\* ready_size by exactly 1 on every upstream edge and sends one
\* DATE_IS_USELESS to each upstream peer; its DATA_IS_READY sends all come
\* before its DATE_IS_USELESS sends, and no maximum changes.
C11_WorkUnitEffect ==
  LET nd == Cardinality(DOMAIN out_buffs_)
      nu == Cardinality(DOMAIN in_readys_)
  IN /\ Len(last.sends) = Len(last.units) * (nd + nu)
     /\ \A i \in 1..Len(last.units) :
          /\ \A d \in DOMAIN out_buffs_ :
               /\ UsedSize(AfterUnit(i).out_buffs_, d)
                    = UsedSize(last.units[i].out_buffs_, d) + 1
               /\ MaxBuffSize(AfterUnit(i).out_buffs_, d)
                    = MaxBuffSize(last.units[i].out_buffs_, d)
               /\ CountOf(SubSeq(SendsOfUnit(i), 1, nd), <<d, DATA_IS_READY>>) = 1
          /\ \A u \in DOMAIN in_readys_ :
               /\ ReadySize(AfterUnit(i).in_readys_, u)
                    = ReadySize(last.units[i].in_readys_, u) - 1
               /\ MaxReadySize(AfterUnit(i).in_readys_, u)
                    = MaxReadySize(last.units[i].in_readys_, u)
               /\ CountOf(SubSeq(SendsOfUnit(i), nd + 1, nd + nu), <<u, DATE_IS_USELESS>>) = 1

\* A work unit of a stage with two upstream and two downstream edges.
C11_Witness ==
  /\ Cardinality(DOMAIN in_readys_) = 2
  /\ Cardinality(DOMAIN out_buffs_) = 2
  /\ Len(last.units) = 1
  /\ Len(last.sends) = 4

\* The gate as the claims state it.
GateOpen ==
  /\ \A u \in DOMAIN in_readys_ : ReadySize(in_readys_, u) > 0
  /\ \A d \in DOMAIN out_buffs_ : UsedSize(out_buffs_, d) < MaxBuffSize(out_buffs_, d)

\* C12 as stated: whenever a handler invocation returns without an error,
\* some upstream edge has ready_size = 0 or some downstream edge is full.
C12_IdleMeansBlocked_AsStated ==
  (last.msg.type \in MessageTypes /\ last.err = NoError) => ~GateOpen

\* C12, amended: whenever a handler invocation on a DATA_IS_READY or
\* DATE_IS_USELESS message, or a Run() trigger, returns without an error, some
\* upstream edge has ready_size = 0 or some downstream edge is full.
C12_IdleMeansBlocked ==
  ( /\ last.msg.type \in {DATA_IS_READY, DATE_IS_USELESS, RUN_TRIGGER}
    /\ last.err = NoError )
  => ~GateOpen

\* A DATE_IS_USELESS that released a full edge and returned with the edge
\* full again and input still held.
C12_Witness ==
  /\ last.msg.type = DATE_IS_USELESS
  /\ last.err = NoError
  /\ Len(last.units) > 0
  /\ \A u \in DOMAIN in_readys_ : ReadySize(in_readys_, u) > 0
  /\ DOMAIN in_readys_ # {}
  /\ ~GateOpen

\* The state in which the loop of the latest invocation was entered: its
\* first iteration's, or the present one when the gate was closed at once.
LoopEntry ==
  IF last.units # <<>>
    THEN last.units[1]
    ELSE [in_readys_ |-> in_readys_, out_buffs_ |-> out_buffs_]

\* The latest invocation reached Run().
LoopWasRun ==
  \/ last.msg.type = RUN_TRIGGER
  \/ /\ last.msg.type \in {DATA_IS_READY, DATE_IS_USELESS}
     /\ (last.err # NoError => last.units # <<>>)

\* C13: one invocation of the loop runs a number of work units that is at
\* most the least ready_size over the upstream edges at loop entry, at most
\* the least (max_buffer_size - used_size) over the downstream edges at loop
\* entry, and equal to the smaller of the two bounds that exist.
C13_LoopBound ==
  LoopWasRun =>
    LET e == LoopEntry
        n == Len(last.units)
        readys == {ReadySize(e.in_readys_, u) : u \in DOMAIN e.in_readys_}
        frees == {MaxBuffSize(e.out_buffs_, d) - UsedSize(e.out_buffs_, d) :
                    d \in DOMAIN e.out_buffs_}
    IN /\ \A r \in readys : n <= r
       /\ \A f \in frees : n <= f
       /\ \E b \in readys \cup frees : n = b

\* A loop that stopped on a full downstream edge with input left over.
C13_Witness ==
  /\ LoopWasRun
  /\ Len(last.units) = 1
  /\ DOMAIN in_readys_ # {}
  /\ \A u \in DOMAIN in_readys_ : ReadySize(LoopEntry.in_readys_, u) >= 2
  /\ \A d \in DOMAIN out_buffs_ :
       MaxBuffSize(LoopEntry.out_buffs_, d) - UsedSize(LoopEntry.out_buffs_, d) = 1

\* C14: an invocation that throws threw in the counter update of its own
\* message, before the loop: no work unit began, nothing was sent, no edge
\* changed, and the error is the one IncreaseReady / DecreaseBuff gives on
\* the state before the invocation.
C14_NoErrorInsideLoop ==
  last.err # NoError =>
    /\ LastDidNothing
    /\ last.msg.type \in {DATA_IS_READY, DATE_IS_USELESS}
    /\ last.msg.type = DATA_IS_READY =>
         last.err = IncreaseReady(last.pre_in, last.msg.src_id, TRUE).err
    /\ last.msg.type = DATE_IS_USELESS =>
         last.err = DecreaseBuff(last.pre_out, last.msg.src_id, TRUE).err

\* A message rejected by a stage with two downstream edges that has run
\* work units and holds one full and one empty downstream edge.
C14_Witness ==
  /\ last.err = CreditUnderflow
  /\ works_total >= 2
  /\ Cardinality(DOMAIN out_buffs_) = 2
  /\ \E d \in DOMAIN out_buffs_ : UsedSize(out_buffs_, d) = MaxBuffSize(out_buffs_, d)

\* C15: the key sets of both maps and every maximum are what construction
\* set and never change: every upstream maximum is in_buff_size (the largest
\* int64_t), every downstream maximum is 2, and right after construction
\* every ready_size and used_size is 0.
C15_FixedEdges ==
  /\ DOMAIN in_readys_ = DOMAIN last.pre_in
  /\ DOMAIN out_buffs_ = DOMAIN last.pre_out
  /\ \A u \in DOMAIN in_readys_ :
       /\ MaxReadySize(in_readys_, u) = MaxReadySize(last.pre_in, u)
       /\ MaxReadySize(in_readys_, u) = Int64Max
  /\ \A d \in DOMAIN out_buffs_ :
       /\ MaxBuffSize(out_buffs_, d) = MaxBuffSize(last.pre_out, d)
       /\ MaxBuffSize(out_buffs_, d) = 2
  /\ nmsgs = 0 =>
       /\ \A u \in DOMAIN in_readys_ : ReadySize(in_readys_, u) = 0
       /\ \A d \in DOMAIN out_buffs_ : UsedSize(out_buffs_, d) = 0

\* A stage with edges on both sides after work units and MaxMsgs
\* invocations, the latest a rejected message from a stranger.
C15_Witness ==
  /\ nmsgs = MaxMsgs
  /\ works_total > 0
  /\ last.err = UnknownPeer
  /\ last.msg.src_id = StrangerId
  /\ DOMAIN in_readys_ # {} /\ DOMAIN out_buffs_ # {}

\* C16: a message that is neither DATA_IS_READY nor DATE_IS_USELESS changes
\* no counter, sends nothing, begins no work unit and throws nothing.
C16_OtherMessageIgnored ==
  last.msg.type = OTHER_TYPE => (LastDidNothing /\ last.err = NoError)

\* Such a message reached a stage whose gate was open.
C16_Witness ==
  /\ last.msg.type = OTHER_TYPE
  /\ IsInputReady(last.pre_in) /\ CanWriteOutput(last.pre_out)
  /\ last.err = NoError

\* C20: with W the work units so far, every upstream edge has ready_size =
\* (DATA_IS_READY accepted from the peer) - W and was sent W DATE_IS_USELESS;
\* every downstream edge has used_size = W - (DATE_IS_USELESS accepted from
\* the peer) and was sent W DATA_IS_READY.  Rejected messages count nowhere.
C20_Accounting ==
  /\ \A u \in DOMAIN in_readys_ :
       /\ ReadySize(in_readys_, u) = ready_accepted[u] - works_total
       /\ useless_sent[u] = works_total
  /\ \A d \in DOMAIN out_buffs_ :
       /\ UsedSize(out_buffs_, d) = works_total - useless_accepted[d]
       /\ ready_sent[d] = works_total

\* Three work units, an accepted DATE_IS_USELESS and a rejected message.
C20_Witness ==
  /\ works_total >= 3
  /\ DOMAIN in_readys_ # {}
  /\ \E d \in DOMAIN out_buffs_ : useless_accepted[d] >= 1
  /\ last.err # NoError


\* ------------------------------------------------------ pipeline claims

\* The messages of type `type` in flight from src to dst.
InFlight(src, dst, type) ==
  Len(SelectSeq(p_chan[<<src, dst>>], LAMBDA t : t = type))

\* used_size of stage a toward its downstream b; ready_size of stage b for
\* its upstream a; the capacity of a's slot for b.
PUsed(a, b) == p_state[a].out_buffs_[b][2]
PReady(b, a) == p_state[b].in_readys_[a][2]
PCapacity(a, b) == p_state[a].out_buffs_[b][1]

\* C17: on every edge a -> b of a pipeline, in every reachable state, a's
\* used_size toward b equals the DATA_IS_READY messages in flight a -> b plus
\* b's ready_size for a plus the DATE_IS_USELESS messages in flight b -> a.
C17_CreditConservation ==
  \A e \in p_edges :
    PUsed(e[1], e[2]) =
      InFlight(e[1], e[2], DATA_IS_READY) + PReady(e[2], e[1])
        + InFlight(e[2], e[1], DATE_IS_USELESS)

\* Some edge carries one credit of each kind at once: one announcement in
\* flight and one acknowledgement in flight.
C17_Witness ==
  \E e \in p_edges :
    /\ InFlight(e[1], e[2], DATA_IS_READY) = 1
    /\ InFlight(e[2], e[1], DATE_IS_USELESS) = 1
    /\ PUsed(e[1], e[2]) = 2

\* C18: in a pipeline where every stage runs this controller, under every
\* interleaving the DATA_IS_READY messages in flight on an edge plus the
\* consumer's ready_size never exceed the producer's capacity for that edge,
\* and no step throws.
C18_BoundedOccupancy ==
  /\ \A e \in p_edges :
       InFlight(e[1], e[2], DATA_IS_READY) + PReady(e[2], e[1])
         <= PCapacity(e[1], e[2])
  /\ p_last.err = NoError

\* An edge is filled to the producer's capacity, held by a consumer that is
\* itself blocked on its own downstream.
C18_Witness ==
  \E e \in p_edges :
    /\ PReady(e[2], e[1]) = PCapacity(e[1], e[2])
    /\ p_last.stage # 0

\* Some channel holds a message.
SomeMailboxNonEmpty == \E c \in DOMAIN p_chan : p_chan[c] # <<>>

\* The latest step was stage s beginning at least one work unit.
Worked(s) == p_last.stage = s /\ p_last.works > 0

\* C19: in a linear chain, once the source's loop has been triggered no
\* reachable state has every channel empty, and under weak fairness of
\* delivery every stage begins work units again and again.
C19_NoDeadlock ==
  /\ [](p_started => SomeMailboxNonEmpty)
  /\ \A s \in StageIds :
       []<>(p_started /\ s \in DOMAIN p_state => Worked(s))

\* The sink of the longest chain has just worked.
C19_Witness ==
  /\ p_started
  /\ DOMAIN p_state = 1..MaxChain
  /\ Worked(MaxChain)
====
